---------------------------- MODULE Spec2Model ----------------------------
(***************************************************************************)
(* A model of sdk/nodejs/runtime/native/closure.cc: the native             *)
(* serializeClosure entry point, SerializeFunction, SerializeFunctionCode   *)
(* and Lookup, together with the two JavaScript callbacks it calls out to  *)
(* (the free-variable analyzer and the env-entry serializer).              *)
(*                                                                         *)
(* Strings whose characters matter (function source text) are tuples of    *)
(* one-character strings; JavaScript values are named by strings.          *)
(***************************************************************************)
EXTENDS Integers, Sequences, FiniteSets, TLC

\* ------------------------------------------------------------------ bounds
\* Deepest stack of nested SerializeFunction activations the model follows.
MaxDepth == 4
\* Longest array the free-variable analyzer returns.
MaxVars == 2

\* ------------------------------------------------------------------ values
Funcs == {"A", "B"}
Names == {"x", "y"}
\* The identifier of an analyzer element whose element 0 is not a string.
BadId == "#nonstring"
Undefined == "undefined"
\* A value the env-entry serializer cannot represent.
Native == "native"
Prims == {"42"}
\* Plain objects: "o1" is also used as a scope extension object.
Objs == {"o1"}

\* ----------------------------------------------------------- source text
OpenParen == <<"(">>
FuncString == <<"f", "u", "n", "c", "t", "i", "o", "n">>
BadPrefix == <<"[", "F", "u", "n", "c", "t", "i", "o", "n", ":">>

Min(a, b) == IF a < b THEN a ELSE b

\* std::string::compare(0, prefix.length(), prefix) == 0: the first
\* min(prefix.length(), size()) characters of code equal prefix.
ComparePrefix(code, prefix) ==
    SubSeq(code, 1, Min(Len(prefix), Len(code))) = prefix

\* The test of line 89: the text is an opaque "[Function: ...]" stand-in.
IsBadCode(code) == ComparePrefix(code, BadPrefix)

\* Lines 100-101, with the operands swapped by a plausible slip.
IsExpressionCodeMutant(code) ==
    ComparePrefix(OpenParen, code) \/ ComparePrefix(FuncString, code)

\* Lines 100-101: a lambda or a function-keyword expression.
IsExpressionCode(code) ==
    ComparePrefix(code, OpenParen) \/ ComparePrefix(code, FuncString)

\* Lines 97-113: the text SerializeFunctionCode returns.  The throw of line
\* 90 does not return, so this is computed for a bad text as well.
NormalizeCode(code) ==
    IF IsExpressionCode(code)
    THEN <<"(">> \o code \o <<")">>
    ELSE <<"(", "f", "u", "n", "c", "t", "i", "o", "n", " ">> \o code \o <<")">>

\* ------------------------------------------------------------ scope chain
EmptyMap == [n \in {} |-> Undefined]

\* A context of the chain: its named slots, and (ext # "none") an extension
\* object "holder" of that kind with its named properties.
SlotCtx(slots) ==
    [ext |-> "none", holder |-> Undefined, props |-> EmptyMap, slots |-> slots]
ExtCtx(kind, holder, props, slots) ==
    [ext |-> kind, holder |-> holder, props |-> props, slots |-> slots]

NullLookup == [kind |-> "null", ctx |-> 0, holder |-> Undefined]

\* v8::internal::Context::Lookup with FOLLOW_CHAINS, as called at lines
\* 49-53: from the innermost context outward, a property of the context's
\* extension object yields that OBJECT, a slot yields the CONTEXT and the
\* slot's index (here: its name); nothing found yields a null handle.
RECURSIVE ContextLookupFrom(_, _, _)
ContextLookupFrom(chain, k, name) ==
    IF k > Len(chain) THEN NullLookup
    ELSE IF chain[k].ext # "none" /\ name \in DOMAIN chain[k].props
         THEN [kind |-> chain[k].ext, ctx |-> k, holder |-> chain[k].holder]
    ELSE IF name \in DOMAIN chain[k].slots
         THEN [kind |-> "Context", ctx |-> k, holder |-> Undefined]
    ELSE ContextLookupFrom(chain, k + 1, name)

ContextLookup(chain, name) == ContextLookupFrom(chain, 1, name)

\* Lookup, were a failed lookup to yield undefined instead of throwing.
LookupLenient(chain, name) ==
    LET lookup == ContextLookup(chain, name) IN
    IF lookup.kind = "Context"
    THEN [empty |-> FALSE, v |-> chain[lookup.ctx].slots[name]]
    ELSE IF lookup.kind = "JSObject"
    THEN [empty |-> FALSE, v |-> lookup.holder]
    ELSE [empty |-> FALSE, v |-> Undefined]

\* Lookup, lines 41-78.  empty = TRUE is the empty handle returned after the
\* exception of line 76 was thrown.
Lookup(chain, name) ==
    LET lookup == ContextLookup(chain, name) IN
    IF lookup.kind = "Context"
    THEN [empty |-> FALSE, v |-> chain[lookup.ctx].slots[name]]
    ELSE IF lookup.kind = "JSObject"
    THEN [empty |-> FALSE, v |-> lookup.holder]
    ELSE [empty |-> TRUE, v |-> Undefined]


\* ------------------------------------------------------------- the inputs
\* What a caller can pass in one argument position: undefined, a Function,
\* or any other value.  Line 232 tests the fourth for undefined only.
ArgKinds == {"undefined", "function", "object"}
CacheKinds == {"undefined", "object"}
ArgLists ==
    UNION {[1..n -> ArgKinds] : n \in 0..3}
    \cup {a \o <<c>> : a \in [1..3 -> ArgKinds], c \in CacheKinds}

\* The function passed as args[0], and the cache object passed as args[3].
RootFn == "A"
TopCache == 0
CacheIds == 0..MaxDepth

\* "() => x" and "[Function: foo]"
MainTexts ==
    { <<"(", ")", " ", "=", ">", " ", "x">>,
      BadPrefix \o <<" ", "f", "o", "o", "]">> }

\* The lexical contexts a function of the model can have: a shadowed and an
\* undefined binding, an extension object, functions that capture each
\* other, a value that cannot be represented, and names with no binding.
MainChains ==
    { <<SlotCtx("x" :> Undefined), SlotCtx(("x" :> "42") @@ ("y" :> "B"))>>,
      <<ExtCtx("JSObject", "o1", "x" :> "42", EmptyMap), SlotCtx("y" :> "A")>>,
      <<SlotCtx(("x" :> "A") @@ ("y" :> "B"))>>,
      <<SlotCtx("y" :> Native)>> }

\* One element [identifier, props] of the analyzer's array.
Elems == [id : Names \cup {BadId}, props : {"props"}]
\* What the analyzer callback can do: throw, return a non-array, or return
\* an array of elements.
AnalyzerResults ==
    { [kind |-> "throw", elems |-> <<>>], [kind |-> "nonArray", elems |-> <<>>] }
    \cup { [kind |-> "array", elems |-> e] :
             e \in UNION {[1..n -> Elems] : n \in 0..MaxVars} }

\* ------------------------------------------------------------- exceptions
NoError == [type |-> "none", msg |-> ""]
TypeError(m) == [type |-> "TypeError", msg |-> m]
NonExpressionError == TypeError("Cannot serialize non-expression functions")
AnalyzerThrew == [type |-> "AnalyzerError", msg |-> "thrown by the analyzer"]
UnsupportedValue == [type |-> "UnsupportedValueError", msg |-> Native]
MissingVariable(name) == [type |-> "Error", msg |-> name]

\* ------------------------------------------------------------------ state
VARIABLES
    args,      \* the arguments of the top-level serializeClosure call
    phase,     \* "call", "running", "returned", "crashed"; "idle" when unused
    stack,     \* the SerializeFunction activations, outermost first
    pending,   \* the isolate's scheduled exception
    retval,    \* <<>> or <<closure>>: args.GetReturnValue() of the top call
    cacheTab,  \* cache object -> function identity -> its entry's state
    heap,      \* per function: its toString text and its lexical context
    hist,      \* what has been done so far, in order
    raised,    \* the exceptions thrown so far, in order
    lk         \* the inputs and the result of one Lookup on its own

vars == <<args, phase, stack, pending, retval, cacheTab, heap, hist, raised, lk>>

EmptyEnv == [n \in {} |-> [tag |-> "undefined", of |-> Undefined]]
Unseen == [seen |-> FALSE, text |-> <<>>, scope |-> <<>>,
           fv |-> [kind |-> "throw", elems |-> <<>>]]
LkIdle == [chain |-> <<>>, name |-> "x", done |-> FALSE,
           out |-> [empty |-> TRUE, v |-> Undefined]]

\* The locals of SerializeFunction, lines 117-187.
NewFrame(f, cache) ==
    [fn |-> f, pc |-> "code", code |-> <<>>, fvArg |-> <<>>, fv |-> <<>>,
     i |-> 0, env |-> EmptyEnv, cache |-> cache, v |-> Undefined, ok |-> FALSE]

Event(op, f, idx, what) ==
    [op |-> op, fn |-> f, depth |-> Len(stack), idx |-> idx, what |-> what]

Top == stack[Len(stack)]
SetTop(fr) == [stack EXCEPT ![Len(stack)] = fr]

\* isolate->ThrowException(e): e becomes the scheduled exception, in place
\* of one scheduled before.
Throw(e) ==
    /\ pending' = e
    /\ raised' = Append(raised, e)

\* CreateClosure, lines 32-38.
CreateClosure(code, environment) ==
    [code |-> code, runtime |-> "nodejs", environment |-> environment]

\* Line 182, were the entry to replace the environment built so far.
EnvSetAlone(env, key, entry) == [k \in {key} |-> entry]

\* environment->Set(freevar, envEntry), line 182.
EnvSet(env, key, entry) ==
    [k \in DOMAIN env \cup {key} |-> IF k = key THEN entry ELSE env[k]]

\* A cache object with no entry, and the caches a caller can pass: a new one,
\* or one that holds the closures of functions of an earlier call.
NoEntries == [f \in Funcs |-> "absent"]
CacheContents == [Funcs -> {"absent", "closure"}]

Init ==
    /\ args \in ArgLists
    /\ phase = "call"
    /\ stack = <<>>
    /\ pending = NoError
    /\ retval = <<>>
    /\ \E t \in CacheContents :
         cacheTab = [c \in CacheIds |->
                        IF c = TopCache /\ Len(args) = 4 /\ args[4] = "object"
                        THEN t ELSE NoEntries]
    /\ heap = [f \in Funcs |-> Unseen]
    /\ hist = <<>>
    /\ raised = <<>>
    /\ lk = LkIdle


\* --------------------------------------------------------- SerializeClosure
\* Lines 196-236 without the checks of the third argument (lines 220-228).
ArgErrorNoSerializerCheck(a) ==
    IF Len(a) < 1 \/ a[1] = "undefined"
    THEN TypeError("Missing required function argument")
    ELSE IF a[1] # "function"
    THEN TypeError("Function argument must be a Function object")
    ELSE IF Len(a) < 2 \/ a[2] = "undefined"
    THEN TypeError("Missing required free variables calculator")
    ELSE IF a[2] # "function"
    THEN TypeError("Free variables argument must be a Function object")
    ELSE IF Len(a) < 4 \/ a[4] = "undefined"
    THEN TypeError("Missing required env-entry cache")
    ELSE NoError

\* Lines 196-236 without the check of the fourth argument (lines 232-236).
ArgErrorNoCacheCheck(a) ==
    IF Len(a) < 1 \/ a[1] = "undefined"
    THEN TypeError("Missing required function argument")
    ELSE IF a[1] # "function"
    THEN TypeError("Function argument must be a Function object")
    ELSE IF Len(a) < 2 \/ a[2] = "undefined"
    THEN TypeError("Missing required free variables calculator")
    ELSE IF a[2] # "function"
    THEN TypeError("Free variables argument must be a Function object")
    ELSE IF Len(a) < 3 \/ a[3] = "undefined"
    THEN TypeError("Missing required env-entry serializer function")
    ELSE IF a[3] # "function"
    THEN TypeError("Env-entry serializer argument must be a Function object")
    ELSE NoError

\* The argument checks of lines 196-236, in order: the exception thrown, or
\* NoError when all four arguments pass.
ArgError(a) ==
    IF Len(a) < 1 \/ a[1] = "undefined"
    THEN TypeError("Missing required function argument")
    ELSE IF a[1] # "function"
    THEN TypeError("Function argument must be a Function object")
    ELSE IF Len(a) < 2 \/ a[2] = "undefined"
    THEN TypeError("Missing required free variables calculator")
    ELSE IF a[2] # "function"
    THEN TypeError("Free variables argument must be a Function object")
    ELSE IF Len(a) < 3 \/ a[3] = "undefined"
    THEN TypeError("Missing required env-entry serializer function")
    ELSE IF a[3] # "function"
    THEN TypeError("Env-entry serializer argument must be a Function object")
    ELSE IF Len(a) < 4 \/ a[4] = "undefined"
    THEN TypeError("Missing required env-entry cache")
    ELSE NoError

\* hackfunc->context(), lines 122-124: the first time a function is met its
\* source text and lexical context are drawn from texts and chains, and with
\* them what the analyzer makes of that text.
Meet(f, texts, chains) ==
    IF heap[f].seen
    THEN heap' = heap
    ELSE \E t \in texts, c \in chains, r \in AnalyzerResults :
            heap' = [heap EXCEPT ![f] = [seen |-> TRUE, text |-> t, scope |-> c,
                                         fv |-> r]]

\* SerializeClosure, lines 192-240, up to the call of SerializeFunction and
\* its lines 122-124.
SerializeClosure(texts, chains) ==
    /\ phase = "call"
    /\ IF ArgError(args) # NoError
       THEN /\ Throw(ArgError(args))
            /\ phase' = "returned"
            /\ hist' = Append(hist, Event("throw", RootFn, -1, ArgError(args).type))
            /\ UNCHANGED <<stack, heap>>
       ELSE /\ Meet(RootFn, texts, chains)
            /\ phase' = "running"
            /\ stack' = <<NewFrame(RootFn, TopCache)>>
            /\ hist' = Append(hist, Event("build", RootFn, -1, "top"))
            /\ UNCHANGED <<pending, raised>>
    /\ UNCHANGED <<args, retval, cacheTab, lk>>

\* ---------------------------------------------------- SerializeFunctionCode
\* Line 127 and lines 80-114.  The throw of line 90 is not followed by a
\* return: the text is normalized and returned with the exception scheduled.
SerializeFunctionCode ==
    /\ phase = "running"
    /\ Top.pc = "code"
    /\ LET text == heap[Top.fn].text IN
       /\ IF IsBadCode(text)
          THEN /\ Throw(NonExpressionError)
               /\ hist' = Append(hist, Event("throw", Top.fn, -1, "nonexpr"))
          ELSE /\ UNCHANGED <<pending, raised>>
               /\ hist' = Append(hist, Event("code", Top.fn, -1, "ok"))
       /\ stack' = SetTop([Top EXCEPT !.code = NormalizeCode(text),
                                      !.pc = "freeVars"])
    /\ UNCHANGED <<args, phase, retval, cacheTab, heap, lk>>

\* ------------------------------------------------------- the analyzer call
\* Lines 130-140 and 156-162: freeVarsFunc is called with the code; r is
\* what the callback does.
FreeVarsCall ==
    /\ phase = "running"
    /\ Top.pc = "freeVars"
    /\ LET r == heap[Top.fn].fv IN
        LET called == Append(hist, Event("analyze", Top.fn, -1, r.kind))
            fr == [Top EXCEPT !.fvArg = Top.code]
        IN
        CASE r.kind = "throw" ->
               /\ Throw(AnalyzerThrew)
               /\ hist' = Append(called, Event("throw", Top.fn, -1, "analyzer"))
               /\ stack' = SetTop([fr EXCEPT !.pc = "ret", !.ok = FALSE])
          [] r.kind = "nonArray" ->
               /\ Throw(TypeError("Free variables return expected to be an Array"))
               /\ hist' = Append(called, Event("throw", Top.fn, -1, "nonarray"))
               /\ stack' = SetTop([fr EXCEPT !.pc = "ret", !.ok = FALSE])
          [] r.kind = "array" ->
               /\ UNCHANGED <<pending, raised>>
               /\ hist' = called
               /\ stack' = SetTop([fr EXCEPT !.fv = r.elems, !.i = 0,
                                             !.env = EmptyEnv, !.pc = "loop"])
    /\ UNCHANGED <<args, phase, retval, cacheTab, heap, lk>>

\* ------------------------------------------------------- the loop: Lookup
\* The outcomes of lines 165-171 for an element whose identifier is not a
\* string: the unchecked casts hand Lookup an object that is no String.
BadElemOutcomes == {"crash", "missing", "found"}

\* Lines 163-175, and 185-186 when the loop is over.
LoopLookup ==
    /\ phase = "running"
    /\ Top.pc = "loop"
    /\ IF Top.i >= Len(Top.fv)
       THEN /\ stack' = SetTop([Top EXCEPT !.pc = "ret", !.ok = TRUE])
            /\ hist' = Append(hist, Event("closure", Top.fn, -1, "created"))
            /\ UNCHANGED <<pending, raised, phase>>
       ELSE LET freevar == Top.fv[Top.i + 1].id
                looked == Append(hist, Event("lookup", Top.fn, Top.i, freevar))
                found(v) ==
                    /\ stack' = SetTop([Top EXCEPT !.v = v, !.pc = "entry"])
                    /\ hist' = looked
                    /\ UNCHANGED <<pending, raised, phase>>
                missing ==
                    /\ Throw(MissingVariable(freevar))
                    /\ hist' = Append(looked, Event("throw", Top.fn, Top.i, "missing"))
                    /\ stack' = SetTop([Top EXCEPT !.pc = "ret", !.ok = FALSE])
                    /\ UNCHANGED phase
            IN
            IF freevar = BadId
            THEN \E o \in BadElemOutcomes :
                   CASE o = "crash" ->
                          /\ phase' = "crashed"
                          /\ stack' = <<>>
                          /\ hist' = Append(looked, Event("crash", Top.fn, Top.i, freevar))
                          /\ UNCHANGED <<pending, raised>>
                     [] o = "missing" -> missing
                     [] o = "found" -> found(Undefined)
            ELSE LET r == Lookup(heap[Top.fn].scope, freevar) IN
                 IF r.empty THEN missing ELSE found(r.v)
    /\ UNCHANGED <<args, retval, cacheTab, heap, lk>>

\* ------------------------------------------------ the env-entry serializer
\* The entry the serializer callback returns for a value it can represent.
EntryOf(v) ==
    [tag |-> IF v = Undefined THEN "undefined"
             ELSE IF v \in Prims THEN "json"
             ELSE IF v \in Funcs THEN "closure"
             ELSE "obj",
     of |-> v]

\* envEntryArgv[2], line 177, were each activation to pass a cache of its own.
EnvEntryCacheFresh(fr) == Len(stack)

\* envEntryArgv[2], line 177: the cache object SerializeFunction was given.
EnvEntryCache(fr) == fr.cache

\* Lines 182-183: the entry is stored and the loop goes on.
StoreEntry(fr, entry) ==
    [fr EXCEPT !.env = EnvSet(fr.env, fr.fv[fr.i + 1].id, entry),
               !.i = fr.i + 1, !.pc = "loop"]

\* What the serializer callback does with a value and the cache it is
\* given: it throws for a value it cannot represent, starts the build of a
\* function that has no entry in the cache, and otherwise returns the
\* value's entry (for a function in the cache, the cached one).
SerializerDoes(v, c) ==
    IF v = Native THEN "throw"
    ELSE IF v \in Funcs /\ cacheTab[c][v] = "absent" THEN "build"
    ELSE "entry"

\* The callback's cache after it inserted the placeholder of f, and after
\* it stored f's closure there.
WithPlaceholder(c, f) == [cacheTab EXCEPT ![c][f] = "placeholder"]
WithClosure(c, f) == [cacheTab EXCEPT ![c][f] = "closure"]

\* Lines 176-183: envEntryFunc is called with {v, props, envEntryCache}.
\* When the callback builds a function it inserts the placeholder first and
\* then calls serializeClosure on the function with the cache it was given
\* (lines 192-240 and 122-124 again, with valid arguments).
EnvEntryCall ==
    /\ phase = "running"
    /\ Top.pc = "entry"
    /\ LET v == Top.v
           c == EnvEntryCache(Top)
           called == Append(hist, Event("entry", Top.fn, Top.i, v))
       IN
       CASE SerializerDoes(v, c) = "throw" ->
              /\ Throw(UnsupportedValue)
              /\ hist' = Append(called, Event("throw", Top.fn, Top.i, "unsupported"))
              /\ stack' = SetTop([Top EXCEPT !.pc = "ret", !.ok = FALSE])
              /\ UNCHANGED <<cacheTab, heap>>
         [] SerializerDoes(v, c) = "build" ->
              /\ Len(stack) < MaxDepth
              /\ cacheTab' = WithPlaceholder(c, v)
              /\ Meet(v, MainTexts, MainChains)
              /\ stack' = Append(SetTop([Top EXCEPT !.pc = "wait"]), NewFrame(v, c))
              /\ hist' = Append(called, Event("build", v, Top.i, "nested"))
              /\ UNCHANGED <<pending, raised>>
         [] SerializerDoes(v, c) = "entry" ->
              /\ stack' = SetTop(StoreEntry(Top, EntryOf(v)))
              /\ hist' = called
              /\ UNCHANGED <<pending, raised, cacheTab, heap>>
    /\ UNCHANGED <<args, phase, retval, lk>>

\* ------------------------------------------------------------------ return
\* Lines 240-243: SerializeFunction has returned to the top-level
\* SerializeClosure, which sets the return value when the closure is not
\* empty.
ReturnTop ==
    /\ phase = "running"
    /\ Top.pc = "ret"
    /\ Len(stack) = 1
    /\ hist' = Append(hist, Event("return", Top.fn, -1,
                                  IF Top.ok THEN "closure" ELSE "empty"))
    /\ retval' = IF Top.ok THEN <<CreateClosure(Top.code, Top.env)>> ELSE <<>>
    /\ phase' = "returned"
    /\ stack' = <<>>
    /\ UNCHANGED <<args, pending, raised, cacheTab, heap, lk>>

\* A nested serializeClosure returns into the serializer callback that
\* called it.  A scheduled exception is thrown there, which leaves the
\* calling activation's envEntryFunc->Call empty (lines 179-181); otherwise
\* the callback stores the closure in its placeholder and returns the
\* entry, which lines 182-183 store.
ReturnNested ==
    /\ phase = "running"
    /\ Top.pc = "ret"
    /\ Len(stack) > 1
    /\ hist' = Append(hist, Event("return", Top.fn, -1,
                                  IF Top.ok THEN "closure" ELSE "empty"))
    /\ LET parent == stack[Len(stack) - 1]
           below == SubSeq(stack, 1, Len(stack) - 2)
       IN
       IF pending # NoError
       THEN /\ stack' = Append(below, [parent EXCEPT !.pc = "ret", !.ok = FALSE])
            /\ UNCHANGED cacheTab
       ELSE /\ cacheTab' = WithClosure(Top.cache, Top.fn)
            /\ stack' = Append(below, StoreEntry(parent, EntryOf(Top.fn)))
    /\ UNCHANGED <<args, phase, retval, pending, raised, heap, lk>>

\* ---------------------------------------------------------- specifications
Next ==
    \/ SerializeClosure(MainTexts, MainChains)
    \/ SerializeFunctionCode
    \/ FreeVarsCall
    \/ LoopLookup
    \/ EnvEntryCall
    \/ ReturnTop
    \/ ReturnNested

Spec == Init /\ [][Next]_vars

\* ------------------------------------------- the code extractor's inputs
\* Source texts: every head followed by every tail.  The heads are the three
\* prefixes the code tests for, and texts that nearly are one of them.
CodeHeads ==
    { <<>>, OpenParen, <<"(", "(">>, <<" ", "(">>, <<")">>,
      FuncString, FuncString \o <<"*">>, FuncString \o <<" ">>,
      <<"f">>, <<"f", "u", "n", "c", "t", "i", "o">>,
      <<"F", "u", "n", "c", "t", "i", "o", "n">>,
      <<" ">> \o FuncString, <<"f", "o", "o">>, <<"x">>,
      <<"c", "l", "a", "s", "s", " ">>,
      BadPrefix, BadPrefix \o <<" ">>, <<"[">>,
      <<"[", "F", "u", "n", "c", "t", "i", "o", "n">>,
      <<"[", "f", "u", "n", "c", "t", "i", "o", "n", ":">>,
      <<" ">> \o BadPrefix }
CodeTails ==
    { <<>>,
      <<")", " ", "=", ">", " ", "x", " ", "+", " ", "1">>,
      <<"(", ")", " ", "{", " ", "}">>,
      <<" ", "f", "o", "o", "]">>,
      <<":">> }
CodeTexts == {h \o t : h \in CodeHeads, t \in CodeTails}

\* "() => x + 1", the function of the worked example, where x = 42.
ExampleText == <<"(", ")", " ", "=", ">", " ", "x", " ", "+", " ", "1">>
CodeChains == { <<SlotCtx("x" :> "42")>> }

ValidArgs == <<"function", "function", "function", "object">>

InitCode ==
    /\ args = ValidArgs
    /\ phase = "call"
    /\ stack = <<>>
    /\ pending = NoError
    /\ retval = <<>>
    /\ cacheTab = [c \in CacheIds |-> NoEntries]
    /\ heap = [f \in Funcs |-> Unseen]
    /\ hist = <<>>
    /\ raised = <<>>
    /\ lk = LkIdle

NextCode ==
    \/ SerializeClosure(CodeTexts, CodeChains)
    \/ SerializeFunctionCode
    \/ FreeVarsCall
    \/ LoopLookup
    \/ EnvEntryCall
    \/ ReturnTop

SpecCode == InitCode /\ [][NextCode]_vars

\* ---------------------------------------------------- Lookup on its own
\* Longest scope chain Lookup is applied to.
MaxChain == 2

LkVals == {"42", "7"}
LkMaps == UNION {[d -> LkVals] : d \in SUBSET Names}
\* Contexts with slots only; with-contexts (an extension object or proxy and
\* no slots); and function contexts extended by a sloppy eval.
LkContexts ==
    {SlotCtx(m) : m \in LkMaps}
    \cup {ExtCtx(k, "o1", m, EmptyMap) : k \in {"JSObject", "JSProxy"}, m \in LkMaps}
    \cup {ExtCtx("JSObject", "o1", m, "x" :> "7") : m \in LkMaps}
LkChains == UNION {[1..n -> LkContexts] : n \in 1..MaxChain}

InitLookup ==
    /\ args = <<>>
    /\ phase = "idle"
    /\ stack = <<>>
    /\ pending = NoError
    /\ retval = <<>>
    /\ cacheTab = [c \in CacheIds |-> NoEntries]
    /\ heap = [f \in Funcs |-> Unseen]
    /\ hist = <<>>
    /\ raised = <<>>
    /\ lk \in [chain : LkChains, name : Names, done : {FALSE},
               out : {LkIdle.out}]

\* One call Lookup(isolate, context, name), lines 41-78.
LookupCall ==
    /\ phase = "idle"
    /\ ~lk.done
    /\ lk' = [lk EXCEPT !.done = TRUE, !.out = Lookup(lk.chain, lk.name)]
    /\ UNCHANGED <<args, phase, stack, pending, raised, retval, cacheTab, heap, hist>>

NextLookup == LookupCall

SpecLookup == InitLookup /\ [][NextLookup]_vars

\* ================================================================ claims
Work == {"build", "code", "analyze", "lookup", "entry", "closure", "return"}
Finished == phase \in {"returned", "crashed"}
\* The identifiers an analyzer result reports.
Reported(r) == {r.elems[j].id : j \in DOMAIN r.elems}

\* ------------------------------------------------------------------- C4
\* The arguments fail validation: one of the first three is missing or is
\* no function, or the cache is missing or undefined.
InvalidArgs(a) ==
    \/ Len(a) < 4
    \/ \E j \in 1..3 : a[j] # "function"
    \/ a[4] = "undefined"

\* C4: when any argument of serializeClosure fails validation, a TypeError
\* is raised and the call returns before any work: no scope is read, no
\* source extracted, no callback invoked, the cache is not touched and no
\* return value is set.
C4_InvalidArgsAbortBeforeWork ==
    /\ [](  (phase # "call" /\ InvalidArgs(args)) =>
              /\ phase = "returned"
              /\ pending.type = "TypeError"
              /\ raised = <<pending>>
              /\ \A k \in DOMAIN hist : hist[k].op \notin Work
              /\ \A f \in Funcs : ~heap[f].seen
              /\ stack = <<>>
              /\ retval = <<>>  )
    /\ [][InvalidArgs(args) => cacheTab' = cacheTab]_vars

\* A call whose env-entry serializer is not callable has returned.
C4_Witness ==
    /\ phase = "returned"
    /\ Len(args) = 4
    /\ args[1] = "function" /\ args[2] = "function"
    /\ args[3] = "object" /\ args[4] = "object"
    /\ pending.type = "TypeError"

\* ------------------------------------------------------------------- C8
\* A valid function, analyzer and serializer, and no cache argument.
NoCacheArg(a) ==
    /\ Len(a) >= 3
    /\ \A j \in 1..3 : a[j] = "function"
    /\ (Len(a) = 3 \/ a[4] = "undefined")

\* C8, as claimed: a call with no cache argument passes validation and
\* proceeds to serialization.
C8_CacheIsOptional ==
    (phase # "call" /\ NoCacheArg(args)) =>
        \E k \in DOMAIN hist : hist[k].op = "build"

\* C8, amended: the cache argument is required: a call with no cache
\* argument (absent or undefined) raises the TypeError "Missing required
\* env-entry cache" and serializes nothing.
C8_CacheIsRequired ==
    (phase # "call" /\ NoCacheArg(args)) =>
        /\ phase = "returned"
        /\ pending = TypeError("Missing required env-entry cache")
        /\ \A k \in DOMAIN hist : hist[k].op \notin Work
        /\ \A f \in Funcs : ~heap[f].seen
        /\ cacheTab = [c \in CacheIds |-> NoEntries]
        /\ retval = <<>>

\* A call with three valid arguments and no fourth has returned.
C8_Witness ==
    /\ phase = "returned"
    /\ args = <<"function", "function", "function">>

\* ------------------------------------------------------------------- C7
\* C7: on every successful serializeClosure (the top-level call and every
\* nested one) the key set of the environment is exactly the set of names
\* the analyzer reported; when it reported none the environment is empty
\* and no lookup and no env-entry call was made.
C7_EnvironmentKeysAreReportedNames ==
    /\ \A k \in DOMAIN stack :
         (stack[k].pc = "ret" /\ stack[k].ok) =>
            DOMAIN stack[k].env = Reported(heap[stack[k].fn].fv)
    /\ retval # <<>> =>
         /\ DOMAIN retval[1].environment = Reported(heap[RootFn].fv)
         /\ heap[RootFn].fv.elems = <<>> =>
              /\ retval[1].environment = EmptyEnv
              /\ \A k \in DOMAIN hist : hist[k].op \notin {"lookup", "entry"}

\* A call that returned an environment for two reported names.
C7_Witness ==
    /\ phase = "returned"
    /\ retval # <<>>
    /\ pending = NoError
    /\ Reported(heap[RootFn].fv) = {"x", "y"}
    /\ DOMAIN retval[1].environment = {"x", "y"}

\* ------------------------------------------------------------------- C2
\* name has a binding somewhere in the chain.
Bound(chain, name) ==
    \E k \in DOMAIN chain :
        \/ name \in DOMAIN chain[k].slots
        \/ chain[k].ext # "none" /\ name \in DOMAIN chain[k].props

\* The lookups of a reported name that has no binding in the function's
\* lexical scope chain.
UnboundLookups ==
    {k \in DOMAIN hist :
        /\ hist[k].op = "lookup"
        /\ hist[k].what \in Names
        /\ ~Bound(heap[hist[k].fn].scope, hist[k].what)}

C1_NonExpressionAbortsCapture ==
    \A k \in DOMAIN hist :
        (hist[k].op = "throw" /\ hist[k].what = "nonexpr") =>
            /\ \A j \in DOMAIN hist :
                 j > k => hist[j].op \notin {"analyze", "lookup", "entry", "closure"}
            /\ retval = <<>>

\* ------------------------------------------------------------------- C3
\* C3: a finished call either returned a closure with an entry for every
\* reported name and raised nothing, or set no return value and left the
\* first error raised as the scheduled exception; and after a failure no
\* lookup and no env-entry call is made.
C3_NoPartialResult ==
    /\ Finished =>
         /\ phase = "returned"
         /\ IF retval # <<>>
            THEN /\ raised = <<>> /\ pending = NoError
                 /\ DOMAIN retval[1].environment = Reported(heap[RootFn].fv)
            ELSE /\ raised # <<>> /\ pending = raised[1]
    /\ \A k \in DOMAIN hist :
         hist[k].op = "throw" =>
            \A j \in DOMAIN hist : j > k => hist[j].op \notin {"lookup", "entry"}

\* ------------------------------------------------------------------- C5
\* The analyzer's result is no array, or holds an element whose identifier
\* is not a string.
Malformed(r) ==
    \/ r.kind = "nonArray"
    \/ r.kind = "array" /\ BadId \in Reported(r)

\* No function met so far has an opaque "[Function: ...]" text.
AllTextsAccepted == \A f \in Funcs : heap[f].seen => ~IsBadCode(heap[f].text)

\* C5: when the analyzer's result is malformed the call fails with a
\* TypeError and returns no closure, and no lookup and no env-entry call is
\* made for a malformed element (stated of functions whose text is accepted).
C5_MalformedResultIsTypeError ==
    AllTextsAccepted =>
        /\ \A k \in DOMAIN hist :
             hist[k].op \in {"lookup", "entry"} =>
                heap[hist[k].fn].fv.elems[hist[k].idx + 1].id # BadId
        /\ (Finished /\ Malformed(heap[RootFn].fv)
              /\ \E k \in DOMAIN hist : hist[k].op = "analyze") =>
             /\ phase = "returned"
             /\ pending.type = "TypeError"
             /\ retval = <<>>

\* ------------------------------------------------------------------- C6
Builds(f) ==
    Cardinality({k \in DOMAIN hist : hist[k].op = "build" /\ hist[k].fn = f})
NestedBuilds(f) ==
    Cardinality({k \in DOMAIN hist :
                    /\ hist[k].op = "build" /\ hist[k].fn = f
                    /\ hist[k].what = "nested"})

\* C6, as claimed: the closure builder is entered at most once per function
\* identity (stated of the runs in which nothing is thrown).
C6_BuiltOncePerIdentity ==
    raised = <<>> => \A f \in Funcs : Builds(f) <= 1

\* The serializer starts at most one build per function, and only after the
\* function's entry is in the one cache object the caller passed; no other
\* cache is used; only the function of the top-level call, which is built
\* without an entry, can be built a second time; no placeholder is left
\* when the call succeeds.
C6_OneEntryPerIdentity ==
    \A f \in Funcs :
        /\ NestedBuilds(f) <= 1
        /\ Builds(f) <= (IF f = RootFn THEN 2 ELSE 1)
        /\ (NestedBuilds(f) = 1) => (cacheTab[TopCache][f] # "absent")
        /\ \A c \in CacheIds \ {TopCache} : cacheTab[c][f] = "absent"
        /\ (phase = "returned" /\ retval # <<>> /\ pending = NoError) =>
              cacheTab[TopCache][f] # "placeholder"

\* Every step of the call adds to hist: a build adds at most 5 events and 3
\* for each reported name, and there are at most Cardinality(Funcs) + 1
\* builds.
StepBound == (Cardinality(Funcs) + 1) * (5 + 3 * MaxVars)

\* C6, amended: functions that capture each other serialize in finitely
\* many steps (an unfinished call can always take a step, and it takes at
\* most StepBound) with exactly one Closure entry per captured function
\* identity: the env-entry serializer starts at most one build per identity,
\* because every env-entry call of every nested build gets the same cache
\* and the placeholder is inserted before the build; the function passed to
\* the top-level call has no entry when its build starts, so it is built
\* once more when a captured function (or itself) captures it.
C6_MutualRecursionTerminates ==
    /\ C6_OneEntryPerIdentity
    /\ Finished \/ ENABLED Next
    /\ Len(hist) <= StepBound

\* A returned A whose environment reaches B, whose environment reaches A.
C6_Witness ==
    /\ phase = "returned"
    /\ retval # <<>>
    /\ pending = NoError
    /\ Builds("B") = 1
    /\ \E k \in DOMAIN hist :
         hist[k].op = "entry" /\ hist[k].fn = "A" /\ hist[k].what = "B"
    /\ \E k \in DOMAIN hist :
         hist[k].op = "entry" /\ hist[k].fn = "B" /\ hist[k].what = "A"

\* ------------------------------------------------------------------- C9
\* text begins with prefix.
StartsWith(text, prefix) ==
    /\ Len(text) >= Len(prefix)
    /\ \A j \in 1..Len(prefix) : text[j] = prefix[j]

\* The reference normalization of an accepted text.
ReferenceCode(text) ==
    IF StartsWith(text, <<"(">>)
       \/ StartsWith(text, <<"f", "u", "n", "c", "t", "i", "o", "n">>)
    THEN <<"(">> \o text \o <<")">>
    ELSE <<"(", "f", "u", "n", "c", "t", "i", "o", "n", " ">> \o text \o <<")">>

Accepted(text) ==
    ~StartsWith(text, <<"[", "F", "u", "n", "c", "t", "i", "o", "n", ":">>)

\* C9: for every accepted source text the extracted code is the reference
\* normalization; it is the text handed to the analyzer and the code field
\* of the returned closure; "() => x + 1" with x = 42 yields the closure of
\* the worked example.
C9_CodeIsReferenceNormalization ==
    /\ \A k \in DOMAIN stack :
         LET fr == stack[k]
             text == heap[fr.fn].text
         IN  (fr.pc # "code" /\ Accepted(text)) =>
                /\ fr.code = ReferenceCode(text)
                /\ fr.pc # "freeVars" => fr.fvArg = ReferenceCode(text)
    /\ (retval # <<>> /\ Accepted(heap[RootFn].text)) =>
         retval[1].code = ReferenceCode(heap[RootFn].text)
    /\ (retval # <<>> /\ heap[RootFn].text = ExampleText
          /\ heap[RootFn].fv.elems = <<[id |-> "x", props |-> "props"]>>) =>
         retval[1] =
            [code |-> <<"(", "(", ")", " ", "=", ">", " ", "x", " ", "+", " ",
                        "1", ")">>,
             runtime |-> "nodejs",
             environment |-> ("x" :> [tag |-> "json", of |-> "42"])]

\* The worked example has returned its closure.
C9_Witness ==
    /\ phase = "returned"
    /\ retval # <<>>
    /\ heap[RootFn].text = ExampleText
    /\ Reported(heap[RootFn].fv) = {"x"}
    /\ retval[1].code[1] = "(" /\ retval[1].code[2] = "("

\* ------------------------------------------------------------------ C10
\* The value of the innermost binding of name: the extension object's
\* property, or the slot's contents.
RECURSIVE InnermostFrom(_, _, _)
InnermostFrom(chain, k, name) ==
    IF k > Len(chain) THEN Undefined
    ELSE IF chain[k].ext # "none" /\ name \in DOMAIN chain[k].props
         THEN chain[k].props[name]
    ELSE IF name \in DOMAIN chain[k].slots
         THEN chain[k].slots[name]
    ELSE InnermostFrom(chain, k + 1, name)

\* C10: for every name bound in the chain, Lookup returns the value of the
\* innermost binding: the slot's contents, or the property's value (not the
\* extension object that holds it).
C10_LookupReturnsInnermostValue ==
    (lk.done /\ Bound(lk.chain, lk.name)) =>
        /\ ~lk.out.empty
        /\ lk.out.v = InnermostFrom(lk.chain, 1, lk.name)

=============================================================================
